---- MODULE Spec2Model ----
(***************************************************************************)
(* Model of the podcast semantic-search component: the lexical scorer,     *)
(* the three-tier fallback chain (remote embedding, remote with local      *)
(* embedding, lexical), the React state machine that debounces and         *)
(* launches searches, and the server routes with the hashed embedding.     *)
(*                                                                         *)
(* Text is a sequence of one-character strings.  Chinese characters are    *)
(* written as pinyin tokens ("mei" = U+7F8E, "shi" = U+98DF, ...); each    *)
(* token is ONE character of the source string.                            *)
(***************************************************************************)
EXTENDS Integers, Sequences, FiniteSets, TLC

\* ------------------------------------------------------------------------
\* Bounds of the model
\* ------------------------------------------------------------------------
\* Number of user events (input edits, clicks, category changes) explored.
MaxUserEvents == 2
\* Number of performSearch invocations that may be suspended at an await.
MaxInFlight == 2
\* Length of the document lists handed to the lexical scorer on its own.
MaxListLen == 3

\* ------------------------------------------------------------------------
\* Strings
\* ------------------------------------------------------------------------
\* String.prototype.toLowerCase on one character (only Latin letters of the
\* model alphabet have a case).
LowerChar(c) ==
  CASE c = "A" -> "a"
    [] c = "I" -> "i"
    [] OTHER -> c

toLowerCase(s) == [i \in 1..Len(s) |-> LowerChar(s[i])]

\* Characters that String.prototype.trim and the regexp class \s remove.
IsWhitespace(c) == c \in {" ", "\t"}

RECURSIVE TrimLeft(_)
TrimLeft(s) ==
  IF s # <<>> /\ IsWhitespace(Head(s)) THEN TrimLeft(Tail(s)) ELSE s

RECURSIVE TrimRight(_)
TrimRight(s) ==
  IF s # <<>> /\ IsWhitespace(s[Len(s)])
    THEN TrimRight(SubSeq(s, 1, Len(s) - 1))
    ELSE s

trim(s) == TrimRight(TrimLeft(s))

\* String.prototype.includes: t occurs in s as a contiguous substring.
includes(s, t) ==
  \E i \in 0..(Len(s) - Len(t)) : SubSeq(s, i + 1, i + Len(t)) = t

endsWith(s, t) ==
  Len(s) >= Len(t) /\ SubSeq(s, Len(s) - Len(t) + 1, Len(s)) = t

\* String.prototype.split(" "): cuts at every U+0020 and keeps empty pieces.
RECURSIVE split(_)
split(s) ==
  IF \A i \in 1..Len(s) : s[i] # " "
    THEN <<s>>
    ELSE LET i == CHOOSE k \in 1..Len(s) :
                     s[k] = " " /\ \A j \in 1..(k - 1) : s[j] # " "
         IN <<SubSeq(s, 1, i - 1)>> \o split(SubSeq(s, i + 1, Len(s)))

\* Array.prototype.join(" ") on a list of strings.
RECURSIVE join(_)
join(xs) ==
  IF xs = <<>> THEN <<>>
  ELSE IF Len(xs) = 1 THEN xs[1]
  ELSE xs[1] \o <<" ">> \o join(Tail(xs))

\* ------------------------------------------------------------------------
\* Corpus
\* ------------------------------------------------------------------------
MeiShi   == <<"mei", "shi">>          \* U+7F8E U+98DF  (food)
ChuanCai == <<"chuan", "cai">>        \* U+5DDD U+83DC  (Sichuan cuisine)
TouZi    == <<"tou", "zi">>           \* U+6295 U+8CC7  (investment)
CaiJing  == <<"caij", "jing">>        \* U+8CA1 U+7D93  (finance)
KeJi     == <<"ke", "ji">>            \* U+79D1 U+6280  (technology)
TuiJian  == <<"tui", "jian">>         \* U+63A8 U+85A6  (recommendation)
AI       == <<"A", "I">>

\* The documents imported from the mock data module.  None of them carries
\* a relevanceScore.  Documents 1 and 2 have the same searchable matches for
\* the query "mei shi" (a tie), document 3 matches only through the concept
\* map, document 4 matches nothing food related.
podcastData ==
  << [id |-> 1, title |-> MeiShi, description |-> <<"x">>,
      fullDescription |-> <<>>, category |-> "food", tags |-> <<MeiShi>>],
     [id |-> 2, title |-> <<"y">>, description |-> MeiShi,
      fullDescription |-> <<"z">>, category |-> "life", tags |-> <<MeiShi>>],
     [id |-> 3, title |-> <<"w">>, description |-> <<"x">>,
      fullDescription |-> <<>>, category |-> "food", tags |-> <<ChuanCai>>],
     [id |-> 4, title |-> <<"q">>, description |-> <<"q">>,
      fullDescription |-> <<>>, category |-> "life", tags |-> <<AI>>] >>

\* The same import with eight more documents of the category of document 4,
\* so that one category alone has as many documents as a remote answer has
\* matches.  The routes specification ranks against this list; the
\* component specification keeps to the four documents above.
podcastDataFull ==
  podcastData
  \o [i \in 1..8 |->
       [id |-> 10 + i, title |-> <<"q">>, description |-> <<"q">>,
        fullDescription |-> <<>>, category |-> "life", tags |-> <<AI>>]]

\* {...podcast, relevanceScore: score}
WithScore(p, score) ==
  [id |-> p.id, title |-> p.title, description |-> p.description,
   fullDescription |-> p.fullDescription, category |-> p.category,
   tags |-> p.tags, relevanceScore |-> score]

HasScore(p) == "relevanceScore" \in DOMAIN p

\* (p.relevanceScore || 0) and (p.relevanceScore ?? 0)
ScoreOrZero(p) == IF HasScore(p) THEN p.relevanceScore ELSE 0

\* podcasts.filter((p) => p.category === selectedCategory)
FilterCategory(podcasts, cat) ==
  SelectSeq(podcasts, LAMBDA p : p.category = cat)

\* ------------------------------------------------------------------------
\* Lexical scorer
\* ------------------------------------------------------------------------
\* The text a document is matched against.
searchContent(p) ==
  toLowerCase(p.title \o <<" ">> \o p.description \o <<" ">>
              \o p.fullDescription \o <<" ">> \o join(p.tags))

\* query.toLowerCase().split(" ").filter((term) => term.length > 0)
searchTerms(query) ==
  SelectSeq(split(toLowerCase(query)), LAMBDA t : Len(t) > 0)

\* The concept map of localSemanticSearch, restricted to the concepts and
\* related terms that are spelled with the model alphabet.
semanticMapLocal ==
  << [key |-> MeiShi,  values |-> <<ChuanCai>>],
     [key |-> CaiJing, values |-> <<TouZi, AI>>],
     [key |-> KeJi,    values |-> <<AI, KeJi>>] >>

\* The concept map of semanticSearch, restricted in the same way.
semanticMapBasic ==
  << [key |-> MeiShi,  values |-> <<<<"cai">>, ChuanCai>>],
     [key |-> CaiJing, values |-> <<TouZi>>] >>

\* One (key, values) entry of the map for one term:
\* term.includes(key) || values.some((v) => searchContent.includes(v))
ConceptHit(term, entry, content) ==
  \/ includes(term, entry.key)
  \/ \E k \in 1..Len(entry.values) : includes(content, entry.values[k])

\* Variant: no credit for concepts, only literal matches count.
ConceptScoreNone(term, map, content) == 0

RECURSIVE ConceptScore(_, _, _)
ConceptScore(term, map, content) ==
  IF map = <<>> THEN 0
  ELSE (IF ConceptHit(term, Head(map), content) THEN 5 ELSE 0)
       + ConceptScore(term, Tail(map), content)

KeywordScore(term, content) == IF includes(content, term) THEN 10 ELSE 0

\* The score accumulated over all terms.
RECURSIVE LexicalScore(_, _, _)
LexicalScore(terms, map, content) ==
  IF terms = <<>> THEN 0
  ELSE KeywordScore(Head(terms), content)
       + ConceptScore(Head(terms), map, content)
       + LexicalScore(Tail(terms), map, content)

\* Array.prototype.map
RECURSIVE MapScore(_, _, _)
MapScore(podcasts, terms, map) ==
  IF podcasts = <<>> THEN <<>>
  ELSE <<WithScore(Head(podcasts),
                   LexicalScore(terms, map, searchContent(Head(podcasts))))>>
       \o MapScore(Tail(podcasts), terms, map)

\* Variant: the filter keeps documents that scored zero.
KeepNonNegative(scored) ==
  SelectSeq(scored, LAMBDA p : p.relevanceScore >= 0)

\* .filter((podcast) => podcast.relevanceScore && podcast.relevanceScore > 0)
KeepPositive(scored) ==
  SelectSeq(scored, LAMBDA p : p.relevanceScore # 0 /\ p.relevanceScore > 0)

\* Comparator (a, b) => (b.relevanceScore || 0) - (a.relevanceScore || 0)
CompareScore(a, b) == ScoreOrZero(b) - ScoreOrZero(a)

\* Variant: an unstable sort that places x before the elements it ties with.
RECURSIVE InsertSortedUnstable(_, _)
InsertSortedUnstable(sorted, x) ==
  IF sorted = <<>> THEN <<x>>
  ELSE IF (ScoreOrZero(x) - ScoreOrZero(Head(sorted))) < 0
    THEN <<Head(sorted)>> \o InsertSortedUnstable(Tail(sorted), x)
    ELSE <<x>> \o sorted

\* Array.prototype.sort is a stable sort: x is placed after every element
\* it does not strictly precede.
RECURSIVE InsertSorted(_, _)
InsertSorted(sorted, x) ==
  IF sorted = <<>> THEN <<x>>
  ELSE IF CompareScore(Head(sorted), x) <= 0
    THEN <<Head(sorted)>> \o InsertSorted(Tail(sorted), x)
    ELSE <<x>> \o sorted

RECURSIVE SortByScore(_)
SortByScore(xs) ==
  IF xs = <<>> THEN <<>>
  ELSE InsertSorted(SortByScore(SubSeq(xs, 1, Len(xs) - 1)), xs[Len(xs)])

\* Fallback local semantic search of the typing-aware component.
localSemanticSearch(query, podcasts) ==
  SortByScore(KeepPositive(MapScore(podcasts, searchTerms(query),
                                    semanticMapLocal)))

\* Scorer of the basic component: passes the list through for a blank query.
semanticSearch(query, podcasts) ==
  IF trim(query) = <<>> THEN podcasts
  ELSE SortByScore(KeepPositive(MapScore(podcasts, searchTerms(query),
                                         semanticMapBasic)))

\* ------------------------------------------------------------------------
\* Remote services as seen by the browser
\* ------------------------------------------------------------------------
\* What a fetch can do: reject (network exception) or resolve to a response
\* with an HTTP status.
FetchOutcomes ==
  { [kind |-> "throw"] } \cup
  { [kind |-> "response", status |-> s] : s \in {200, 429, 500} }

\* response.ok
ResponseOk(r) == r.status >= 200 /\ r.status <= 299

\* Variant: every failed primary answer is retried on the fallback endpoint.
QuotaExceededAnyFailure(r) == ~ResponseOk(r)

\* if (!response.ok && response.status === 429)
QuotaExceeded(r) == ~ResponseOk(r) /\ r.status = 429

\* Lists of matches a vector index answer can carry.  score is the
\* similarity in units of 1/10000; id is the string the index stores.
MatchLists ==
  { <<>>,
    << [id |-> <<"3">>, score |-> 5000], [id |-> <<"9">>, score |-> 9900],
       [id |-> <<"1">>, score |-> 9000], [id |-> <<"2">>, score |-> 9000],
       [id |-> <<"4">>, score |-> 2040] >>,
    << [id |-> <<"4">>, score |-> 2000], [id |-> <<"x">>, score |-> 8000] >> }

\* What `await response.json()` can do: reject (unparsable body), or resolve
\* to an object with or without a matches list.
JsonOutcomes ==
  { [kind |-> "throw"], [kind |-> "noMatches"] } \cup
  { [kind |-> "matches", matches |-> m] : m \in MatchLists }

IsDigit(c) == c \in {"0", "1", "2", "3", "4", "5", "6", "7", "8", "9"}

DigitValue(c) ==
  CASE c = "0" -> 0 [] c = "1" -> 1 [] c = "2" -> 2 [] c = "3" -> 3
    [] c = "4" -> 4 [] c = "5" -> 5 [] c = "6" -> 6 [] c = "7" -> 7
    [] c = "8" -> 8 [] c = "9" -> 9

RECURSIVE ParseDigits(_, _)
ParseDigits(s, acc) ==
  IF s # <<>> /\ IsDigit(Head(s))
    THEN ParseDigits(Tail(s), 10 * acc + DigitValue(Head(s)))
    ELSE acc

\* parseInt(match.id): the value of the leading run of digits, <<n>>, or
\* <<>> for NaN when the string does not start with a digit.
parseInt(s) ==
  IF s # <<>> /\ IsDigit(Head(s)) THEN <<ParseDigits(s, 0)>> ELSE <<>>

\* Math.round(match.score * 100) for a score given in 1/10000.
RoundPercent(score) == (score + 50) \div 100

\* Variant: the document is looked up in the whole corpus.
FindByIdInCorpus(podcasts, parsed) ==
  LET hits == SelectSeq(podcastData, LAMBDA p : <<p.id>> = parsed)
  IN IF hits = <<>> THEN <<>> ELSE <<Head(hits)>>

\* podcasts.find((p) => p.id === podcastId): the first such element, as a
\* list of zero or one document.
FindById(podcasts, parsed) ==
  LET hits == SelectSeq(podcasts, LAMBDA p : <<p.id>> = parsed)
  IN IF hits = <<>> THEN <<>> ELSE <<Head(hits)>>

\* results.matches.map(...): null for a match without a candidate document.
RECURSIVE MapMatches(_, _)
MapMatches(matches, podcasts) ==
  IF matches = <<>> THEN <<>>
  ELSE LET m == Head(matches)
           found == FindById(podcasts, parseInt(m.id))
       IN (IF found = <<>>
             THEN << [null |-> TRUE] >>
             ELSE << WithScore(found[1], RoundPercent(m.score)) >>)
          \o MapMatches(Tail(matches), podcasts)

\* .filter((p) => p && p.relevanceScore && p.relevanceScore > 20)
RelevanceThreshold(p) ==
  /\ "null" \notin DOMAIN p
  /\ p.relevanceScore # 0
  /\ p.relevanceScore > 20

\* The list built from a successful remote answer.
RankMatches(matches, podcasts) ==
  SortByScore(SelectSeq(MapMatches(matches, podcasts), RelevanceThreshold))

\* ------------------------------------------------------------------------
\* State of the search component
\* ------------------------------------------------------------------------
VARIABLES
  scorer,            \* a call of the lexical scorer on its own
  route,             \* a request handled by one of the server routes
  component,         \* which of the two versions of the component runs
  searchQuery,       \* useState: text of the input field
  selectedCategory,  \* useState: "" or a category
  results,           \* useState: the displayed list
  isSearching,       \* useState: progress indicator
  searchStatus,      \* useState: progress text
  isTyping,          \* useState: typing flag
  shouldUseAPI,      \* useState: API-eligibility flag
  typingTimer,       \* the pending 800 ms typing timeout, if any
  debounceTimer,     \* the pending performSearch timeout with its closure
  inflight,          \* performSearch invocations suspended at an await
  done,              \* record of the performSearch that last wrote results
  userEvents         \* number of user events so far

vars == <<scorer, route, component, searchQuery, selectedCategory, results, isSearching, searchStatus,
          isTyping, shouldUseAPI, typingTimer, debounceTimer, inflight,
          done, userEvents>>

\* Values the user can put in the input field.
InputValues ==
  { <<>>, <<" ", " ">>, <<"mei">>, MeiShi, MeiShi \o <<" ">>,
    MeiShi \o TuiJian }

\* const suggestedQueries = [...], restricted to the model alphabet.
suggestedQueries == << MeiShi \o TuiJian >>

\* categories: the distinct categories of the corpus.
categories == { podcastData[i].category : i \in 1..Len(podcastData) }

\* allTags: the distinct tags of the corpus.
\* Tags shown on the documents of a list.
TagsOf(list) ==
  UNION { { list[i].tags[k] : k \in 1..Len(list[i].tags) } :
          i \in 1..Len(list) }

\* allTags: the distinct tags of the corpus.
allTags == TagsOf(podcastData)

\* Progress texts.
StatusIdle       == ""
StatusAnalyze    == "analyse intent"
StatusVector     == "generate semantic vector"
StatusSimilarity == "compute similarity"
StatusSort       == "sort results"
StatusQueryVec   == "generate query vector"
StatusFallback   == "use fallback search"
StatusCosine     == "compute semantic similarity"
StatusLocal      == "API failed, use local search"

NoTimer == [kind |-> "none"]

\* No typing timeout is pending.
NoTypingTimer == [armed |-> FALSE, query |-> <<>>]

\* Variant: the typing effect depends on isTyping alone, so that a query
\* change while typing leaves the pending timeout running.
TypingEffectNoRestart(query, typing) ==
  IF typing /\ typingTimer.armed THEN typingTimer
  ELSE IF typing THEN [armed |-> TRUE, query |-> query]
  ELSE NoTypingTimer

\* The typing effect, re-run when searchQuery or isTyping changed: the
\* cleanup clears the previous timeout, and while typing a new 800 ms
\* timeout is set in the render whose query is given.
TypingEffect(query, typing) ==
  IF typing THEN [armed |-> TRUE, query |-> query] ELSE NoTypingTimer
NoSearch == [kind |-> "none"]

\* /^[\s]*$/.test(value)
IsBlank(value) == \A i \in 1..Len(value) : IsWhitespace(value[i])

\* shouldCallAPI of handleSearchInput.
shouldCallAPI(value) ==
  /\ Len(value) >= 2
  /\ ~IsBlank(value)
  /\ ~endsWith(value, <<" ">>)

\* debounceDelay of the search effect.
debounceDelay(typing, query, api) ==
  IF typing THEN 150
  ELSE IF Len(query) < 3 THEN 300
  ELSE IF api THEN 1000
  ELSE 300

\* Variant: the timeout's closure keeps the category of the render before.
ScheduleSearchStaleCategory(query, category, typing, api, withTyping) ==
  [kind |-> "armed", query |-> query, category |-> selectedCategory,
   typing |-> typing, api |-> api,
   delay |-> debounceDelay(typing, query, api),
   withTyping |-> withTyping]

\* The search effect: clearTimeout of the previous timer, then
\* setTimeout(performSearch, debounceDelay) closing over the render's state.
\* withTyping records that the typing timeout was armed in the same commit.
ScheduleSearch(query, category, typing, api, withTyping) ==
  [kind |-> "armed", query |-> query, category |-> category,
   typing |-> typing, api |-> api,
   delay |-> debounceDelay(typing, query, api),
   withTyping |-> withTyping]

NoCall == [pc |-> "none"]

Init ==
  /\ scorer = NoCall
  /\ route = NoCall
  /\ component \in {"typing", "basic"}
  /\ searchQuery = <<>>
  /\ selectedCategory = ""
  /\ results = podcastData
  /\ isSearching = FALSE
  /\ searchStatus = StatusIdle
  /\ isTyping = FALSE
  /\ shouldUseAPI = FALSE
  /\ typingTimer = NoTypingTimer
  /\ debounceTimer = ScheduleSearch(<<>>, "", FALSE, FALSE, FALSE)
  /\ inflight = <<>>
  /\ done = NoSearch
  /\ userEvents = 0

\* ------------------------------------------------------------------------
\* User events
\* ------------------------------------------------------------------------
\* onChange of the input field.
handleSearchInput(value) ==
  /\ component = "typing"
  /\ userEvents < MaxUserEvents
  /\ value # searchQuery
  /\ searchQuery' = value
  /\ isTyping' = TRUE
  /\ shouldUseAPI' = shouldCallAPI(value)
  /\ typingTimer' = TypingEffect(value, TRUE)
  /\ debounceTimer' =
       ScheduleSearch(value, selectedCategory, TRUE, shouldCallAPI(value), TRUE)
  /\ userEvents' = userEvents + 1
  /\ UNCHANGED <<scorer, route, component, selectedCategory, results, isSearching, searchStatus,
                 inflight, done>>

\* setSearchQuery(text) from a click: only the query changes.  The typing
\* effect and the search effect both depend on searchQuery and are re-run.
SetQueryByClick(text) ==
  /\ component = "typing"
  /\ userEvents < MaxUserEvents
  /\ text # searchQuery
  /\ searchQuery' = text
  /\ typingTimer' = TypingEffect(text, isTyping)
  /\ debounceTimer' =
       ScheduleSearch(text, selectedCategory, isTyping, shouldUseAPI, isTyping)
  /\ userEvents' = userEvents + 1
  /\ UNCHANGED <<scorer, route, component, selectedCategory, results, isSearching, searchStatus,
                 isTyping, shouldUseAPI, inflight, done>>

\* A popular-tag button (disabled while isSearching) or a tag chip of a
\* displayed document (rendered unless the progress placeholder is shown).
handleTagClick(tag) ==
  /\ \/ ~isSearching /\ tag \in allTags
     \/ ~(isSearching /\ ~isTyping) /\ tag \in TagsOf(results)
  /\ SetQueryByClick(tag)

\* A suggested-query button (disabled while isSearching).
SuggestedQueryClick(k) ==
  /\ ~isSearching
  /\ SetQueryByClick(suggestedQueries[k])

\* onChange of the category select.  Only the search effect is re-run; the
\* typing timeout keeps running.
setSelectedCategory(cat) ==
  /\ component = "typing"
  /\ userEvents < MaxUserEvents
  /\ cat # selectedCategory
  /\ selectedCategory' = cat
  /\ debounceTimer' =
       ScheduleSearch(searchQuery, cat, isTyping, shouldUseAPI, FALSE)
  /\ userEvents' = userEvents + 1
  /\ UNCHANGED <<scorer, route, component, searchQuery, results, isSearching, searchStatus, isTyping,
                 shouldUseAPI, typingTimer, inflight, done>>

\* The 800 ms typing timeout fires: setIsTyping(false).  A debounce timeout
\* armed in the same commit with a shorter delay has fired before it.
TypingTimerFires ==
  /\ component = "typing"
  /\ typingTimer.armed
  /\ IF debounceTimer.kind = "armed"
       THEN ~debounceTimer.withTyping \/ debounceTimer.delay >= 800
       ELSE TRUE
  /\ isTyping' = FALSE
  /\ typingTimer' = TypingEffect(searchQuery, FALSE)
  /\ debounceTimer' =
       ScheduleSearch(searchQuery, selectedCategory, FALSE, shouldUseAPI, FALSE)
  /\ UNCHANGED <<scorer, route, component, searchQuery, selectedCategory, results, isSearching,
                 searchStatus, shouldUseAPI, inflight, done, userEvents>>

\* ------------------------------------------------------------------------
\* performSearch
\* ------------------------------------------------------------------------
\* Variant: the category filter is skipped.
CandidatesUnfiltered(category) == podcastData

\* let filtered = [...podcastData]; if (selectedCategory) filtered = ...
Candidates(category) ==
  IF category # "" THEN FilterCategory(podcastData, category) ELSE podcastData

NoOutcome == [kind |-> "none"]

\* The record kept of a performSearch invocation that wrote the results.
DoneRecord(t, branch, tiers, promise, primary, fallback, json, output) ==
  [kind |-> "done", query |-> t.query, category |-> t.category,
   typing |-> t.typing, api |-> t.api, branch |-> branch, tiers |-> tiers,
   promise |-> promise, primary |-> primary, fallback |-> fallback,
   json |-> json, output |-> output]

\* Variant: the idle branch runs the scorer on the blank query.
PerformSearchIdleScored(t) ==
  /\ trim(t.query) = <<>> /\ t.category = ""
  /\ results' = localSemanticSearch(t.query, podcastData)
  /\ done' = DoneRecord(t, "idle", <<>>, "none", NoOutcome, NoOutcome,
                        NoOutcome, localSemanticSearch(t.query, podcastData))
  /\ UNCHANGED <<isSearching, searchStatus, inflight>>

\* if (!searchQuery.trim() && !selectedCategory) { setResults(podcastData) }
PerformSearchIdle(t) ==
  /\ trim(t.query) = <<>> /\ t.category = ""
  /\ results' = podcastData
  /\ done' = DoneRecord(t, "idle", <<>>, "none", NoOutcome, NoOutcome,
                        NoOutcome, podcastData)
  /\ UNCHANGED <<isSearching, searchStatus, inflight>>

\* Output of the branch for short queries and for searches created while
\* typing: local search only.
QuickOutput(t) ==
  IF trim(t.query) # <<>>
    THEN localSemanticSearch(t.query, Candidates(t.category))
    ELSE Candidates(t.category)

\* if (searchQuery.length < 2 || isTyping) { ...; return; }
PerformSearchQuick(t) ==
  /\ ~(trim(t.query) = <<>> /\ t.category = "")
  /\ Len(t.query) < 2 \/ t.typing
  /\ results' = QuickOutput(t)
  /\ done' = DoneRecord(t, "quick",
                        IF trim(t.query) # <<>> THEN <<"lexical">> ELSE <<>>,
                        "none", NoOutcome, NoOutcome, NoOutcome,
                        QuickOutput(t))
  /\ UNCHANGED <<isSearching, searchStatus, inflight>>

\* setIsSearching(true); setSearchStatus(...); await the first delay.
PerformSearchStart(t) ==
  /\ ~(trim(t.query) = <<>> /\ t.category = "")
  /\ ~(Len(t.query) < 2 \/ t.typing)
  /\ Len(inflight) < MaxInFlight
  /\ isSearching' = TRUE
  /\ searchStatus' = StatusAnalyze
  /\ inflight' = Append(inflight,
       [query |-> t.query, category |-> t.category, typing |-> t.typing,
        api |-> t.api, pc |-> "delay1", tiers |-> <<>>,
        primary |-> NoOutcome, fallback |-> NoOutcome])
  /\ UNCHANGED <<results, done>>

\* The debounce timeout fires and runs performSearch with the state of the
\* render that armed it.
DebounceFires(branch) ==
  /\ component = "typing"
  /\ debounceTimer.kind = "armed"
  /\ CASE branch = "idle" -> PerformSearchIdle(debounceTimer)
       [] branch = "quick" -> PerformSearchQuick(debounceTimer)
       [] branch = "settled" -> PerformSearchStart(debounceTimer)
  /\ debounceTimer' = NoTimer
  /\ UNCHANGED <<scorer, route, component, searchQuery, selectedCategory, isTyping,
                 shouldUseAPI, typingTimer, userEvents>>

DebounceFiresIdle == DebounceFires("idle")
DebounceFiresQuick == DebounceFires("quick")
DebounceFiresSettled == DebounceFires("settled")

Remove(seq, i) == SubSeq(seq, 1, i - 1) \o SubSeq(seq, i + 1, Len(seq))

\* Position of an invocation in its sequence of awaits.
Rank(pc) ==
  CASE pc = "delay1" -> 1 [] pc = "delay2" -> 2 [] pc = "delay3" -> 3
    [] pc = "delay4" -> 4 [] OTHER -> 5

\* setResults(filtered); setIsSearching(false); setSearchStatus("")
Finish(i, tiers, promise, primary, fallback, json, output) ==
  /\ results' = output
  /\ isSearching' = FALSE
  /\ searchStatus' = StatusIdle
  /\ inflight' = Remove(inflight, i)
  /\ done' = DoneRecord(inflight[i], "settled", tiers, promise,
                        primary, fallback, json, output)

\* One of the first three simulated-progress delays elapses.  Delays of equal
\* length started earlier elapse earlier.
DelayElapses(i) ==
  /\ inflight[i].pc \in {"delay1", "delay2", "delay3"}
  /\ \A j \in 1..(i - 1) : Rank(inflight[j].pc) > Rank(inflight[i].pc)
  /\ inflight' = [inflight EXCEPT ![i].pc =
       CASE @ = "delay1" -> "delay2"
         [] @ = "delay2" -> "delay3"
         [] @ = "delay3" -> "delay4"]
  /\ searchStatus' =
       CASE inflight[i].pc = "delay1" -> StatusVector
         [] inflight[i].pc = "delay2" -> StatusSimilarity
         [] inflight[i].pc = "delay3" -> StatusSort
  /\ UNCHANGED <<scorer, route, component, searchQuery, selectedCategory, results, isSearching,
                 isTyping, shouldUseAPI, typingTimer, debounceTimer, done,
                 userEvents>>

\* The last delay elapses: filter by category and pick the strategy.
\* semanticSearchWithPinecone starts by sending the primary request.
StrategyBranch(i) ==
  LET s == inflight[i]
      filtered == Candidates(s.category)
  IN
  /\ component = "typing"
  /\ s.pc = "delay4"
  /\ \A j \in 1..(i - 1) : Rank(inflight[j].pc) > Rank(s.pc)
  /\ IF trim(s.query) # <<>>
       THEN IF s.api /\ ~s.typing
              THEN /\ searchStatus' = StatusQueryVec
                   /\ inflight' = [inflight EXCEPT ![i].pc = "primary",
                                                   ![i].tiers = <<"primary">>]
                   /\ UNCHANGED <<results, isSearching, done>>
              ELSE Finish(i, <<"lexical">>, "none", NoOutcome, NoOutcome,
                          NoOutcome, localSemanticSearch(s.query, filtered))
       ELSE Finish(i, <<>>, "none", NoOutcome, NoOutcome, NoOutcome,
                   filtered)
  /\ UNCHANGED <<scorer, route, component, searchQuery, selectedCategory, isTyping, shouldUseAPI,
                 typingTimer, debounceTimer, userEvents>>

\* ------------------------------------------------------------------------
\* semanticSearchWithPinecone
\* ------------------------------------------------------------------------
\* Variant: the try block ends before the body of the response is read.
InTryBeforeJson(src) == src \in {"fetchPrimary", "fetchFallback", "notOk"}

\* The places of semanticSearchWithPinecone where an exception can be raised
\* and that lie inside its try block.
InTry(src) ==
  src \in {"fetchPrimary", "fetchFallback", "notOk", "json", "matches"}

\* Variant: the catch block scores the whole corpus instead of the candidates.
CatchBlockWholeCorpus(s, src) ==
  [promise |-> "resolved", lexical |-> TRUE,
   value |-> localSemanticSearch(s.query, podcastData)]

\* How the promise of semanticSearchWithPinecone settles when an exception is
\* raised at src: the catch block returns the lexical result for the
\* candidates it was given.
CatchBlock(s, src) ==
  IF InTry(src)
    THEN [promise |-> "resolved", lexical |-> TRUE,
          value |-> localSemanticSearch(s.query, Candidates(s.category))]
    ELSE [promise |-> "rejected", lexical |-> FALSE, value |-> <<>>]

\* Variant: the remote answer is dropped and the lexical result returned.
ReturnLexical(s, matches) ==
  [promise |-> "resolved", lexical |-> FALSE,
   value |-> localSemanticSearch(s.query, Candidates(s.category))]

\* Variant: an empty ranking is treated as a failure of the remote tier.
ReturnRankedOrLexical(s, matches) ==
  IF RankMatches(matches, Candidates(s.category)) = <<>>
    THEN [promise |-> "resolved", lexical |-> TRUE,
          value |-> localSemanticSearch(s.query, Candidates(s.category))]
    ELSE [promise |-> "resolved", lexical |-> FALSE,
          value |-> RankMatches(matches, Candidates(s.category))]

\* return scoredPodcasts.sort(...)
ReturnRanked(s, matches) ==
  [promise |-> "resolved", lexical |-> FALSE,
   value |-> RankMatches(matches, Candidates(s.category))]

\* performSearch resumes after `await semanticSearchWithPinecone(...)`; its
\* own catch turns a rejection into a lexical search.
Resume(i, settle, primary, fallback, json) ==
  LET s == inflight[i]
      caught == settle.promise = "rejected"
  IN Finish(i,
            s.tiers \o (IF settle.lexical \/ caught
                          THEN <<"lexical">> ELSE <<>>),
            settle.promise, primary, fallback, json,
            IF caught
              THEN localSemanticSearch(s.query, Candidates(s.category))
              ELSE settle.value)

\* The request to /api/search-pinecone settles.
PrimaryResponds(i, r) ==
  LET s == inflight[i] IN
  /\ s.pc = "primary"
  /\ CASE r.kind = "throw" ->
            Resume(i, CatchBlock(s, "fetchPrimary"), r, NoOutcome, NoOutcome)
       [] r.kind = "response" /\ QuotaExceeded(r) ->
            /\ searchStatus' = StatusFallback
            /\ inflight' = [inflight EXCEPT
                 ![i].pc = "fallback",
                 ![i].primary = r,
                 ![i].tiers = Append(@, "fallback")]
            /\ UNCHANGED <<results, isSearching, done>>
       [] r.kind = "response" /\ ~ResponseOk(r) /\ ~QuotaExceeded(r) ->
            Resume(i, CatchBlock(s, "notOk"), r, NoOutcome, NoOutcome)
       [] r.kind = "response" /\ ResponseOk(r) ->
            /\ searchStatus' = StatusCosine
            /\ inflight' = [inflight EXCEPT ![i].pc = "json",
                                            ![i].primary = r]
            /\ UNCHANGED <<results, isSearching, done>>
  /\ UNCHANGED <<scorer, route, component, searchQuery, selectedCategory, isTyping, shouldUseAPI,
                 typingTimer, debounceTimer, userEvents>>

\* The request to /api/search-fallback settles.
FallbackResponds(i, r) ==
  LET s == inflight[i] IN
  /\ s.pc = "fallback"
  /\ CASE r.kind = "throw" ->
            Resume(i, CatchBlock(s, "fetchFallback"), s.primary, r, NoOutcome)
       [] r.kind = "response" /\ ~ResponseOk(r) ->
            Resume(i, CatchBlock(s, "notOk"), s.primary, r, NoOutcome)
       [] r.kind = "response" /\ ResponseOk(r) ->
            /\ searchStatus' = StatusCosine
            /\ inflight' = [inflight EXCEPT ![i].pc = "json",
                                            ![i].fallback = r]
            /\ UNCHANGED <<results, isSearching, done>>
  /\ UNCHANGED <<scorer, route, component, searchQuery, selectedCategory, isTyping, shouldUseAPI,
                 typingTimer, debounceTimer, userEvents>>

\* `await response.json()` settles, then the matches are mapped, filtered
\* and sorted.
JsonResolves(i, j) ==
  LET s == inflight[i] IN
  /\ s.pc = "json"
  /\ CASE j.kind = "throw" ->
            Resume(i, CatchBlock(s, "json"), s.primary, s.fallback, j)
       [] j.kind = "noMatches" ->
            Resume(i, CatchBlock(s, "matches"), s.primary, s.fallback, j)
       [] j.kind = "matches" ->
            Resume(i, ReturnRanked(s, j.matches), s.primary, s.fallback, j)
  /\ UNCHANGED <<scorer, route, component, searchQuery, selectedCategory, isTyping, shouldUseAPI,
                 typingTimer, debounceTimer, userEvents>>

\* ------------------------------------------------------------------------
\* The basic version of the component (no typing detection, no remote call)
\* ------------------------------------------------------------------------
\* setTimeout(performSearch, 300)
BasicSchedule(query, category) ==
  [kind |-> "armed", query |-> query, category |-> category,
   typing |-> FALSE, api |-> FALSE, delay |-> 300, withTyping |-> FALSE]

\* setSearchQuery(text): from the input field, a tag or a suggested query.
BasicSetQuery(text) ==
  /\ component = "basic"
  /\ userEvents < MaxUserEvents
  /\ text # searchQuery
  /\ searchQuery' = text
  /\ debounceTimer' = BasicSchedule(text, selectedCategory)
  /\ userEvents' = userEvents + 1
  /\ UNCHANGED <<scorer, route, component, selectedCategory, results, isSearching,
                 searchStatus, isTyping, shouldUseAPI, typingTimer, inflight,
                 done>>

BasicInput(value) == BasicSetQuery(value)

\* Popular tags are disabled while isSearching; the tag chips of the
\* documents are rendered only when the result list is.
BasicTagClick(tag) ==
  /\ ~isSearching
  /\ tag \in allTags \cup TagsOf(results)
  /\ BasicSetQuery(tag)

BasicSuggestedQueryClick(k) ==
  /\ ~isSearching
  /\ BasicSetQuery(suggestedQueries[k])

BasicSetCategory(cat) ==
  /\ component = "basic"
  /\ userEvents < MaxUserEvents
  /\ cat # selectedCategory
  /\ selectedCategory' = cat
  /\ debounceTimer' = BasicSchedule(searchQuery, cat)
  /\ userEvents' = userEvents + 1
  /\ UNCHANGED <<scorer, route, component, searchQuery, results, isSearching, searchStatus,
                 isTyping, shouldUseAPI, typingTimer, inflight, done>>

\* The 300 ms timeout fires and runs performSearch of the basic version.
BasicPerformSearchStart(t) ==
  /\ ~(trim(t.query) = <<>> /\ t.category = "")
  /\ Len(inflight) < MaxInFlight
  /\ isSearching' = TRUE
  /\ searchStatus' = StatusAnalyze
  /\ inflight' = Append(inflight,
       [query |-> t.query, category |-> t.category, typing |-> FALSE,
        api |-> FALSE, pc |-> "delay1", tiers |-> <<>>,
        primary |-> NoOutcome, fallback |-> NoOutcome])
  /\ UNCHANGED <<results, done>>

BasicDebounceFires(branch) ==
  /\ component = "basic"
  /\ debounceTimer.kind = "armed"
  /\ CASE branch = "idle" -> PerformSearchIdle(debounceTimer)
       [] branch = "settled" -> BasicPerformSearchStart(debounceTimer)
  /\ debounceTimer' = NoTimer
  /\ UNCHANGED <<scorer, route, component, searchQuery, selectedCategory, isTyping,
                 shouldUseAPI, typingTimer, userEvents>>

\* The last delay elapses: filter by category, score, write the results.
BasicFinish(i) ==
  LET s == inflight[i]
      filtered == Candidates(s.category)
  IN
  /\ component = "basic"
  /\ s.pc = "delay4"
  /\ \A j \in 1..(i - 1) : Rank(inflight[j].pc) > Rank(s.pc)
  /\ IF trim(s.query) # <<>>
       THEN Finish(i, <<"lexical">>, "none", NoOutcome, NoOutcome, NoOutcome,
                   semanticSearch(s.query, filtered))
       ELSE Finish(i, <<>>, "none", NoOutcome, NoOutcome, NoOutcome,
                   filtered)
  /\ UNCHANGED <<scorer, route, component, searchQuery, selectedCategory, isTyping,
                 shouldUseAPI, typingTimer, debounceTimer, userEvents>>

BasicDebounceFiresIdle == BasicDebounceFires("idle")
BasicDebounceFiresSettled == BasicDebounceFires("settled")

\* ------------------------------------------------------------------------
\* Specification of the component
\* ------------------------------------------------------------------------
Next ==
  \/ \E value \in InputValues : handleSearchInput(value)
  \/ \E tag \in allTags : handleTagClick(tag)
  \/ \E k \in 1..Len(suggestedQueries) : SuggestedQueryClick(k)
  \/ \E cat \in categories \cup {""} : setSelectedCategory(cat)
  \/ TypingTimerFires
  \/ DebounceFiresIdle
  \/ DebounceFiresQuick
  \/ DebounceFiresSettled
  \/ \E i \in 1..Len(inflight) : DelayElapses(i)
  \/ \E i \in 1..Len(inflight) : StrategyBranch(i)
  \/ \E i \in 1..Len(inflight), r \in FetchOutcomes : PrimaryResponds(i, r)
  \/ \E i \in 1..Len(inflight), r \in FetchOutcomes : FallbackResponds(i, r)
  \/ \E i \in 1..Len(inflight), j \in JsonOutcomes : JsonResolves(i, j)
  \/ \E value \in InputValues : BasicInput(value)
  \/ \E tag \in allTags : BasicTagClick(tag)
  \/ \E k \in 1..Len(suggestedQueries) : BasicSuggestedQueryClick(k)
  \/ \E cat \in categories \cup {""} : BasicSetCategory(cat)
  \/ BasicDebounceFiresIdle
  \/ BasicDebounceFiresSettled
  \/ \E i \in 1..Len(inflight) : BasicFinish(i)

Spec == Init /\ [][Next]_vars

\* ------------------------------------------------------------------------
\* The lexical scorer called on its own
\* ------------------------------------------------------------------------
\* Queries handed to the scorer: blank (spaces, a tab), one term, several
\* terms, repeated terms, upper case, a concept key, a related term.
ScorerQueries ==
  { <<>>, <<" ">>, <<"\t">>, <<"mei">>, <<"x">>, MeiShi, ChuanCai, AI,
    CaiJing,
    MeiShi \o <<" ">> \o TuiJian, MeiShi \o <<" ">> \o MeiShi,
    <<"x", " ", " ", "q">> }

\* Terms a caller appends to a query, and the whitespace put in between.
AppendedTerms == { <<"q">>, MeiShi }
Separators == { " ", "\t" }

\* The earlier call a call is compared with (none for a first call).
NoBase == [kind |-> "none"]

\* Lists of distinct documents of the corpus, in any order.
RECURSIVE ListsUpTo(_)
ListsUpTo(n) ==
  IF n = 0 THEN { <<>> }
  ELSE LET shorter == ListsUpTo(n - 1)
       IN shorter \cup
          { Append(l, podcastData[i]) :
              l \in { x \in shorter : Len(x) = n - 1 },
              i \in 1..Len(podcastData) }

Distinct(list) ==
  \A i, j \in 1..Len(list) : i # j => list[i].id # list[j].id

ScorerLists == { l \in ListsUpTo(MaxListLen) : Distinct(l) }

InitScorer ==
  /\ scorer \in [pc : {"call"},
                 fn : {"localSemanticSearch", "semanticSearch"},
                 query : ScorerQueries,
                 podcasts : ScorerLists,
                 output : { <<>> },
                 base : { NoBase }]
  /\ route = NoCall
  /\ component = "none"
  /\ searchQuery = <<>>
  /\ selectedCategory = ""
  /\ results = podcastData
  /\ isSearching = FALSE
  /\ searchStatus = StatusIdle
  /\ isTyping = FALSE
  /\ shouldUseAPI = FALSE
  /\ typingTimer = NoTypingTimer
  /\ debounceTimer = NoTimer
  /\ inflight = <<>>
  /\ done = NoSearch
  /\ userEvents = 0

\* The scorer runs on its arguments and returns.
CallScorer ==
  /\ scorer.pc = "call"
  /\ scorer' = [scorer EXCEPT
       !.pc = "returned",
       !.output = IF scorer.fn = "localSemanticSearch"
                    THEN localSemanticSearch(scorer.query, scorer.podcasts)
                    ELSE semanticSearch(scorer.query, scorer.podcasts)]
  /\ UNCHANGED <<route, component, searchQuery, selectedCategory, results,
                 isSearching, searchStatus, isTyping, shouldUseAPI,
                 typingTimer, debounceTimer, inflight, done, userEvents>>

\* The caller calls the same scorer again on the same list, with one more
\* term appended to the query after a whitespace character.
ExtendQuery(sep, term) ==
  /\ scorer.pc = "returned"
  /\ scorer.base = NoBase
  /\ scorer' = [scorer EXCEPT
       !.pc = "call",
       !.query = scorer.query \o <<sep>> \o term,
       !.output = <<>>,
       !.base = [kind |-> "call", query |-> scorer.query,
                 output |-> scorer.output]]
  /\ UNCHANGED <<route, component, searchQuery, selectedCategory, results,
                 isSearching, searchStatus, isTyping, shouldUseAPI,
                 typingTimer, debounceTimer, inflight, done, userEvents>>

NextScorer ==
  \/ CallScorer
  \/ \E sep \in Separators, term \in AppendedTerms : ExtendQuery(sep, term)

SpecScorer == InitScorer /\ [][NextScorer]_vars

\* ------------------------------------------------------------------------
\* createLocalEmbedding (fallback route)
\* ------------------------------------------------------------------------
\* dimension = 1536, the default of the parameter.
DefaultDimension == 1536

\* Characters of the range \u4e00-\u9fff of the model alphabet.
IsCJK(c) ==
  c \in {"mei", "shi", "chuan", "cai", "tou", "zi", "caij", "jing", "ke",
         "ji", "tui", "jian"}

\* Characters of the regexp class \w.
IsWordChar(c) ==
  c \in {"a", "i", "A", "I", "q", "w", "x", "y", "z", "_"} \/ IsDigit(c)

\* .replace(/[^\u4e00-\u9fff\w\s]/g, " ")
ReplaceOther(s) ==
  [i \in 1..Len(s) |->
     IF IsCJK(s[i]) \/ IsWordChar(s[i]) \/ IsWhitespace(s[i])
       THEN s[i] ELSE " "]

\* .replace(/\s+/g, " ")
RECURSIVE CollapseWhitespace(_)
CollapseWhitespace(s) ==
  IF s = <<>> THEN <<>>
  ELSE IF IsWhitespace(Head(s))
    THEN <<" ">> \o CollapseWhitespace(TrimLeft(s))
    ELSE <<Head(s)>> \o CollapseWhitespace(Tail(s))

\* const normalizedText = text.toLowerCase().replace(...).replace(...).trim()
normalizedText(text) ==
  trim(CollapseWhitespace(ReplaceOther(toLowerCase(text))))

\* normalizedText.split(" ").filter((w) => w.length > 0)
words(text) == SelectSeq(split(normalizedText(text)), LAMBDA w : Len(w) > 0)

\* String.prototype.charCodeAt on one character of the model alphabet.
charCodeAt(c) ==
  CASE c = "mei" -> 32654 [] c = "shi" -> 39135 [] c = "chuan" -> 24029
    [] c = "cai" -> 33756 [] c = "tou" -> 25237 [] c = "zi" -> 36039
    [] c = "caij" -> 36001 [] c = "jing" -> 32147 [] c = "ke" -> 31185
    [] c = "ji" -> 25216 [] c = "tui" -> 25512 [] c = "jian" -> 34214
    [] c = "a" -> 97 [] c = "i" -> 105 [] c = "q" -> 113 [] c = "w" -> 119
    [] c = "x" -> 120 [] c = "y" -> 121 [] c = "z" -> 122 [] c = "_" -> 95
    [] IsDigit(c) -> 48 + DigitValue(c)

\* A 32-bit integer as its two unsigned 16-bit halves, and back.  All the
\* arithmetic on hashes is done on halves so that no intermediate value
\* leaves the 32-bit range.
HighHalf(h) == (h \div 65536) % 65536
LowHalf(h) == h % 65536

ToInt32(hi, lo) ==
  IF hi >= 32768 THEN (hi - 65536) * 65536 + lo ELSE hi * 65536 + lo

\* hash << 5 : the product by 32, wrapped to 32 bits.
ShiftLeft5(h) ==
  LET lo == LowHalf(h) * 32
      hi == HighHalf(h) * 32 + (lo \div 65536)
  IN ToInt32(hi % 65536, lo % 65536)

\* Variant: the subtraction of hash is left out, which makes the
\* multiplier 32.
HashStepTimes32(hash, char) ==
  LET shifted == ShiftLeft5(hash)
      lo == LowHalf(shifted) + char
      hi == HighHalf(shifted) + (lo \div 65536)
  IN ToInt32(hi % 65536, lo % 65536)

\* hash = (hash << 5) - hash + char; hash = hash & hash;
\* the sum is wrapped to a signed 32-bit integer by the bitwise and.
HashStep(hash, char) ==
  LET shifted == ShiftLeft5(hash)
      lo == LowHalf(shifted) - LowHalf(hash) + char
      hi == HighHalf(shifted) - HighHalf(hash) + (lo \div 65536)
  IN ToInt32(hi % 65536, lo % 65536)

\* The loop over the characters of a word.
RECURSIVE HashFrom(_, _)
HashFrom(hash, word) ==
  IF word = <<>> THEN hash
  ELSE HashFrom(HashStep(hash, charCodeAt(Head(word))), Tail(word))

WordHash(word) == HashFrom(0, word)

\* The values hash takes after each character of a word.
RunningHashes(word) ==
  [n \in 1..Len(word) |-> WordHash(SubSeq(word, 1, n))]

\* Variant: Math.abs is left out; the remainder of a negative number is
\* negative or zero.
TimesModSigned(hash, k, dimension) ==
  LET absMod == IF hash >= 0 THEN hash % dimension
                ELSE (dimension - (hash % dimension)) % dimension
      remainder == (absMod * (k % dimension)) % dimension
  IN IF hash >= 0 THEN remainder ELSE 0 - remainder

\* Math.abs(hash * k) % dimension, the product taken without wraparound
\* (it is exact in double precision): computed from residues.
AbsTimesMod(hash, k, dimension) ==
  LET absMod == IF hash >= 0 THEN hash % dimension
                ELSE (dimension - (hash % dimension)) % dimension
  IN (absMod * (k % dimension)) % dimension

\* Math.min(1, Math.log(word.length + 1) / 3), in thousandths, for the word
\* lengths of the model (at most 9 characters).
Weight(length) ==
  CASE length = 1 -> 231 [] length = 2 -> 366 [] length = 3 -> 462
    [] length = 4 -> 536 [] length = 5 -> 597 [] length = 6 -> 649
    [] length = 7 -> 693 [] length = 8 -> 732 [] length = 9 -> 768

\* embedding[pos] += amount.  A write at an index past the end would grow
\* the array (the new holes read as undefined); a write at a negative
\* index would set a property and leave the elements alone.
AddAt(embedding, pos, amount) ==
  IF pos < 0 THEN embedding
  ELSE IF pos < Len(embedding)
    THEN [embedding EXCEPT ![pos + 1] = @ + amount]
    ELSE [i \in 1..(pos + 1) |->
            IF i <= Len(embedding) THEN embedding[i]
            ELSE IF i = pos + 1 THEN amount ELSE 0]

\* Variant: the array is allocated one element short.
NewArrayShort(dimension) == [i \in 1..(dimension - 1) |-> 0]

\* new Array(dimension).fill(0)
NewArray(dimension) == [i \in 1..dimension |-> 0]

\* pos1, pos2 and pos3 of a hash.
Positions(hash, dimension) ==
  << AbsTimesMod(hash, 1, dimension), AbsTimesMod(hash, 31, dimension),
     AbsTimesMod(hash, 37, dimension) >>

\* The three writes for a hash: weight, weight * 0.7, weight * 0.5.
AddHash(embedding, hash, weight, dimension) ==
  LET pos == Positions(hash, dimension)
  IN AddAt(AddAt(AddAt(embedding, pos[1], weight),
                 pos[2], (weight * 7) \div 10),
           pos[3], (weight * 5) \div 10)

\* The body of words.forEach for one word.
AddWord(embedding, word, dimension) ==
  AddHash(embedding, WordHash(word), Weight(Len(word)), dimension)

RECURSIVE AddWords(_, _, _)
AddWords(embedding, ws, dimension) ==
  IF ws = <<>> THEN embedding
  ELSE AddWords(AddWord(embedding, Head(ws), dimension), Tail(ws), dimension)

\* semanticFeatures, restricted to the keywords of the model alphabet.
semanticFeatures ==
  << [keyword |-> MeiShi,  positions |-> <<100, 200, 300>>],
     [keyword |-> TouZi,   positions |-> <<400, 500, 600>>],
     [keyword |-> CaiJing, positions |-> <<450, 550, 650>>],
     [keyword |-> KeJi,    positions |-> <<700, 800, 900>>] >>

\* positions.forEach((pos) => { if (pos < dimension) embedding[pos] += 2.0 })
RECURSIVE AddPositions(_, _, _)
AddPositions(embedding, positions, dimension) ==
  IF positions = <<>> THEN embedding
  ELSE AddPositions(
         IF Head(positions) < dimension
           THEN AddAt(embedding, Head(positions), 2000)
           ELSE embedding,
         Tail(positions), dimension)

RECURSIVE AddFeatures(_, _, _, _)
AddFeatures(embedding, features, text, dimension) ==
  IF features = <<>> THEN embedding
  ELSE AddFeatures(
         IF includes(text, Head(features).keyword)
           THEN AddPositions(embedding, Head(features).positions, dimension)
           ELSE embedding,
         Tail(features), text, dimension)

\* embedding.reduce((sum, val) => sum + val * val, 0)
\* (summed over the components that are not zero)
RECURSIVE SumOfSquaresOver(_, _)
SumOfSquaresOver(embedding, indices) ==
  IF indices = {} THEN 0
  ELSE LET i == CHOOSE k \in indices : TRUE
       IN embedding[i] * embedding[i]
          + SumOfSquaresOver(embedding, indices \ {i})

SumOfSquares(embedding) ==
  SumOfSquaresOver(embedding,
                   { i \in 1..Len(embedding) : embedding[i] # 0 })

\* The vector returned: component i is values[i] / sqrt(squares) when
\* squares > 0 (the normalisation), and values[i] otherwise.  Values are in
\* thousandths.
createLocalEmbedding(text, dimension) ==
  LET embedding ==
        AddFeatures(AddWords(NewArray(dimension), words(text), dimension),
                    semanticFeatures, normalizedText(text), dimension)
  IN [values |-> embedding,
      squares |-> SumOfSquares(embedding)]

\* ------------------------------------------------------------------------
\* Server routes
\* ------------------------------------------------------------------------
\* Errors thrown by openai.embeddings.create and by index.query, with the
\* failure behind them.  A message is a sequence of pieces; the words the
\* route looks for are pieces of their own.
EmbeddingErrors ==
  { [cause |-> "embeddingQuota",
     message |-> <<"429", " You exceeded your current ", "quota">>],
    [cause |-> "embeddingAuth",
     message |-> <<"401", " Incorrect API key provided">>],
    [cause |-> "network",
     message |-> <<"Connection error: ", "fetch", " failed">>] }

IndexErrors ==
  { [cause |-> "index",
     message |-> <<"Pinecone", "NotFoundError: index not found">>],
    [cause |-> "indexRateLimit",
     message |-> <<"Pinecone", " request failed, status ", "429">>] }

\* Errors raised by a request body that is not JSON and by an embedding
\* response without data[0].
SyntaxError == [cause |-> "malformedRequest",
                message |-> <<"Unexpected token in JSON">>]
TypeError == [cause |-> "malformedResponse",
              message |-> <<"Cannot read properties of undefined">>]

\* What openai.embeddings.create can do for the query of a search route.
EmbeddingOutcomes ==
  { [kind |-> "ok"], [kind |-> "noData"] } \cup
  { [kind |-> "throw", error |-> e] : e \in EmbeddingErrors }

\* Lists of matches the vector index can answer with: score is the raw
\* similarity in 1/10000, and may be missing.
IndexMatchLists ==
  { <<>>,
    << [id |-> <<"1">>, score |-> 9000], [id |-> <<"3">>, score |-> 2200],
       [id |-> <<"2">>, score |-> 2570], [id |-> <<"4">>, score |-> 2040] >>,
    << [id |-> <<"2">>], [id |-> <<"1">>, score |-> 2050],
       [id |-> <<"7">>, score |-> 9900] >> }

\* topK of the request body the browser sends, and the default of the
\* routes.
topK == 10

\* The entries of an index that holds every document of podcastDataFull,
\* best first, for a query close to the ten documents of one category and
\* less close, but well above the browser's threshold, to the two
\* documents of the other.
CategoryRanking ==
  << [id |-> <<"2">>, score |-> 9900], [id |-> <<"4">>, score |-> 9800] >>
  \o [i \in 1..8 |->
        [id |-> <<"1", <<"1", "2", "3", "4", "5", "6", "7", "8">>[i]>>,
         score |-> 9800 - 100 * i]]
  \o << [id |-> <<"3">>, score |-> 5000], [id |-> <<"1">>, score |-> 4000] >>

\* What the index holds for a query, in the order it ranks the entries.
IndexRankings == IndexMatchLists \cup { CategoryRanking }

\* index.query({vector, topK, includeMetadata}): the first topK entries of
\* the ranking; no filter is passed, since the browser sends none.
IndexQuery(ranking, k) ==
  SubSeq(ranking, 1, IF Len(ranking) < k THEN Len(ranking) ELSE k)

\* What index.query can do.
IndexOutcomes ==
  { [kind |-> "noMatches"] } \cup
  { [kind |-> "ok", ranking |-> r, matches |-> IndexQuery(r, topK)] :
      r \in IndexRankings } \cup
  { [kind |-> "throw", error |-> e] : e \in IndexErrors }

\* The catch block of the primary route: status by the text of the message.
ClassifyError(error) ==
  IF \/ includes(error.message, <<"quota">>)
     \/ includes(error.message, <<"429">>)
    THEN [status |-> 429, error |-> "OpenAI API quota exceeded",
          cause |-> error.cause]
  ELSE IF includes(error.message, <<"Pinecone">>)
    THEN [status |-> 500, error |-> "Pinecone database error",
          cause |-> error.cause]
  ELSE IF \/ includes(error.message, <<"network">>)
          \/ includes(error.message, <<"fetch">>)
    THEN [status |-> 500, error |-> "Network connection error",
          cause |-> error.cause]
  ELSE [status |-> 500, error |-> "Internal server error",
        cause |-> error.cause]

\* match.score || 0
RawScore(m) == IF "score" \in DOMAIN m THEN m.score ELSE 0

\* (match.score || 0) * 0.8
ScaleLocal(score) == (score * 8) \div 10

\* searchResponse.matches?.map(...) || []  of the primary route.
FormatMatches(outcome) ==
  IF outcome.kind = "noMatches" THEN <<>>
  ELSE [i \in 1..Len(outcome.matches) |->
          [id |-> outcome.matches[i].id,
           score |-> RawScore(outcome.matches[i])]]

\* The same of the fallback route, with the scores scaled.
FormatMatchesLocal(outcome) ==
  IF outcome.kind = "noMatches" THEN <<>>
  ELSE [i \in 1..Len(outcome.matches) |->
          [id |-> outcome.matches[i].id,
           score |-> ScaleLocal(RawScore(outcome.matches[i]))]]

Success(matches) == [status |-> 200, matches |-> matches, cause |-> "none"]

\* POST of /api/search-pinecone.
PineconePOST(req) ==
  IF req.malformed THEN ClassifyError(SyntaxError)
  ELSE IF trim(req.query) = <<>>
    THEN [status |-> 400, error |-> "Query is required and cannot be empty",
          cause |-> "emptyQuery"]
  ELSE IF ~req.apiKey
    THEN [status |-> 500, error |-> "OpenAI API key not configured",
          cause |-> "missingKey"]
  ELSE IF req.embedding.kind = "throw"
    THEN ClassifyError(req.embedding.error)
  ELSE IF req.embedding.kind = "noData" THEN ClassifyError(TypeError)
  ELSE IF req.index.kind = "throw" THEN ClassifyError(req.index.error)
  ELSE Success(FormatMatches(req.index))

\* POST of /api/search-fallback.
FallbackPOST(req) ==
  IF req.malformed
    THEN [status |-> 500, error |-> "Fallback search failed",
          cause |-> "malformedRequest"]
  ELSE IF trim(req.query) = <<>>
    THEN [status |-> 400, error |-> "Query is required",
          cause |-> "emptyQuery"]
  ELSE IF req.index.kind = "throw"
    THEN [status |-> 500, error |-> "Fallback search failed",
          cause |-> req.index.error.cause]
  ELSE Success(FormatMatchesLocal(req.index))

\* const queryEmbedding = createLocalEmbedding(query): the number of
\* components of the vector the fallback route hands to index.query.
QueryVectorLength(req) ==
  IF ~req.malformed /\ trim(req.query) # <<>>
    THEN Len(createLocalEmbedding(req.query, DefaultDimension).values)
    ELSE 0

\* ------------------------------------------------------------------------
\* The semantic-search route
\* ------------------------------------------------------------------------
\* Number of documents in a request to the route.
MaxDocuments == 3

\* Embedding vectors the embedding service returns (their norms are whole
\* numbers, so that similarities are exact in 1/10000).
QueryVector == <<1, 0, 0, 0>>
DocumentVectors ==
  { <<4, 3, 0, 0>>, <<3, 4, 0, 0>>, <<3, 9, 1, 3>>, <<0, 1, 0, 0>>,
    <<-1, 0, 0, 0>>, <<0, 0, 0, 0>> }

\* a.reduce((sum, val, i) => sum + val * b[i], 0)
RECURSIVE DotFrom(_, _, _)
DotFrom(a, b, i) ==
  IF i > Len(a) THEN 0 ELSE a[i] * b[i] + DotFrom(a, b, i + 1)

\* Math.sqrt on the squares the model produces.
Sqrt(n) == CHOOSE r \in 0..n : r * r <= n /\ (r + 1) * (r + 1) > n

\* The value standing for NaN, outside the range of similarities.
NaN == -99999

\* cosineSimilarity, in 1/10000; 0 / 0 is NaN.
cosineSimilarity(a, b) ==
  LET dotProduct == DotFrom(a, b, 1)
      magnitudeA == Sqrt(DotFrom(a, a, 1))
      magnitudeB == Sqrt(DotFrom(b, b, 1))
  IN IF magnitudeA * magnitudeB = 0 THEN NaN
     ELSE (10000 * dotProduct) \div (magnitudeA * magnitudeB)

\* Variant: the threshold is met by a similarity of exactly 0.3.
AboveThresholdInclusive(score) == score # NaN /\ score >= 3000

\* match.score > 0.3 (false for NaN)
AboveThreshold(score) == score # NaN /\ score > 3000

\* .sort((a, b) => b.score - a.score), a stable sort.
RECURSIVE InsertMatch(_, _)
InsertMatch(sorted, x) ==
  IF sorted = <<>> THEN <<x>>
  ELSE IF x.score - Head(sorted).score <= 0
    THEN <<Head(sorted)>> \o InsertMatch(Tail(sorted), x)
    ELSE <<x>> \o sorted

RECURSIVE SortMatches(_)
SortMatches(xs) ==
  IF xs = <<>> THEN <<>>
  ELSE InsertMatch(SortMatches(SubSeq(xs, 1, Len(xs) - 1)), xs[Len(xs)])

\* POST of /api/semantic-search.
SemanticSearchPOST(req) ==
  IF req.malformed
    THEN [status |-> 500, error |-> "Internal server error",
          cause |-> "malformedRequest"]
  ELSE IF req.query = <<>> \/ req.documents = <<>>
    THEN [status |-> 400, error |-> "Query and documents are required",
          cause |-> "emptyQuery"]
  ELSE IF req.embedding.kind = "throw"
    THEN [status |-> 500, error |-> "Internal server error",
          cause |-> req.embedding.error.cause]
  ELSE Success(
         SortMatches(
           SelectSeq(
             [i \in 1..Len(req.documents) |->
                [id |-> req.documents[i].id,
                 score |-> cosineSimilarity(QueryVector,
                                            req.embedding.data[i]),
                 text |-> req.documents[i].text]],
             LAMBDA m : AboveThreshold(m.score))))

\* ------------------------------------------------------------------------
\* The routes and createLocalEmbedding called on their own
\* ------------------------------------------------------------------------
\* Query texts of the requests.
RouteQueries == { <<>>, <<" ">>, MeiShi }

\* Requests to the two search routes, with what the services they call do.
SearchRequests ==
  [fn : {"searchPinecone"}, malformed : BOOLEAN, query : RouteQueries,
   apiKey : BOOLEAN, embedding : EmbeddingOutcomes, index : IndexOutcomes]
  \cup
  [fn : {"searchFallback"}, malformed : BOOLEAN, query : RouteQueries,
   apiKey : {TRUE}, embedding : { [kind |-> "ok"] }, index : IndexOutcomes]

\* Document lists of a request to the semantic-search route.
RouteDocuments(n) == [i \in 1..n |-> [id |-> i, text |-> <<"x">>]]

\* Requests to the semantic-search route: the service returns one vector
\* per document, or fails.
SemanticRequests ==
  UNION { [fn : {"semanticSearch"}, malformed : BOOLEAN,
           query : {<<>>, MeiShi}, documents : {RouteDocuments(n)},
           embedding :
             { [kind |-> "ok", data |-> d] : d \in [1..n -> DocumentVectors] }
             \cup { [kind |-> "throw", error |-> e] : e \in EmbeddingErrors }]
          : n \in 0..MaxDocuments }

\* Texts handed to createLocalEmbedding: empty, without any recognised
\* character, one word, several words, a domain keyword inside a word,
\* and words long enough for the hash to leave the 32-bit range.
EmbeddingTexts ==
  { <<>>, <<"!", "?">>, <<"x">>, MeiShi, <<"A", "I", "!", "x">>,
    MeiShi \o <<" ">> \o TuiJian, MeiShi \o TuiJian,
    TouZi \o <<"\t", " ">> \o CaiJing,
    MeiShi \o TuiJian \o ChuanCai, TouZi \o CaiJing \o <<"ke">> }

EmbeddingCalls ==
  [fn : {"createLocalEmbedding"}, text : EmbeddingTexts]

\* Values of hash at the end of the loop over a word: the ends of the
\* 32-bit range, values around zero and around the dimension.
HashValues ==
  { -2147483647 - 1, -2147483647, -1537, -1536, -1, 0, 1, 1535, 1536,
    65536, 2147483647 }

\* The body of words.forEach from the positions on, for a hash and a word
\* length.
PositionCalls ==
  [fn : {"wordPositions"}, hash : HashValues, length : {1, 9}]

InitRoutes ==
  /\ \/ \E req \in SearchRequests \cup SemanticRequests :
          route = [pc |-> "call", fn |-> req.fn, request |-> req]
     \/ \E call \in EmbeddingCalls :
          route = [pc |-> "call", fn |-> call.fn, text |-> call.text]
     \/ \E call \in PositionCalls :
          route = [pc |-> "call", fn |-> call.fn, hash |-> call.hash,
                   length |-> call.length]
  /\ scorer = NoCall
  /\ component = "none"
  /\ searchQuery = <<>>
  /\ selectedCategory = ""
  /\ results = podcastData
  /\ isSearching = FALSE
  /\ searchStatus = StatusIdle
  /\ isTyping = FALSE
  /\ shouldUseAPI = FALSE
  /\ typingTimer = NoTypingTimer
  /\ debounceTimer = NoTimer
  /\ inflight = <<>>
  /\ done = NoSearch
  /\ userEvents = 0

RouteUnchanged ==
  UNCHANGED <<scorer, component, searchQuery, selectedCategory, results,
              isSearching, searchStatus, isTyping, shouldUseAPI,
              typingTimer, debounceTimer, inflight, done, userEvents>>

\* A route handles its request and answers.
RouteAnswers ==
  /\ route.pc = "call"
  /\ route.fn \in {"searchPinecone", "searchFallback", "semanticSearch"}
  /\ route' =
       [pc |-> "answered", fn |-> route.fn, request |-> route.request,
        vectorLength |->
          IF route.fn = "searchFallback"
            THEN QueryVectorLength(route.request) ELSE 0,
        response |->
          CASE route.fn = "searchPinecone" -> PineconePOST(route.request)
            [] route.fn = "searchFallback" -> FallbackPOST(route.request)
            [] route.fn = "semanticSearch" ->
                 SemanticSearchPOST(route.request)]
  /\ RouteUnchanged

\* The category filter of performSearch over podcastDataFull.
RouteCandidates(category) ==
  IF category # ""
    THEN FilterCategory(podcastDataFull, category) ELSE podcastDataFull

\* The browser maps, thresholds and sorts the matches of an OK answer of a
\* search route against the candidates of a category.
ClientRanks(category) ==
  /\ route.pc = "answered"
  /\ route.fn \in {"searchPinecone", "searchFallback"}
  /\ route.response.status = 200
  /\ route' =
       [pc |-> "ranked", fn |-> route.fn, request |-> route.request,
        vectorLength |-> route.vectorLength, response |-> route.response,
        category |-> category,
        output |->
          RankMatches(route.response.matches, RouteCandidates(category))]
  /\ RouteUnchanged

\* createLocalEmbedding is called on a text, with the default dimension.
EmbedText ==
  /\ route.pc = "call"
  /\ route.fn = "createLocalEmbedding"
  /\ route' = [pc |-> "once", fn |-> route.fn, text |-> route.text,
               hashes |-> [k \in 1..Len(words(route.text)) |->
                             RunningHashes(words(route.text)[k])],
               first |-> createLocalEmbedding(route.text, DefaultDimension)]
  /\ RouteUnchanged

\* It is called a second time on the same text.
EmbedTextAgain ==
  /\ route.pc = "once"
  /\ route' = [pc |-> "twice", fn |-> route.fn, text |-> route.text,
               hashes |-> route.hashes, first |-> route.first,
               second |-> createLocalEmbedding(route.text, DefaultDimension)]
  /\ RouteUnchanged

\* The positions of a hash are computed and the three writes are made to
\* a new array of the default dimension.
PlaceWord ==
  /\ route.pc = "call"
  /\ route.fn = "wordPositions"
  /\ route' = [pc |-> "placed", fn |-> route.fn, hash |-> route.hash,
               length |-> route.length,
               positions |-> Positions(route.hash, DefaultDimension),
               arrayLength |->
                 Len(AddHash(NewArray(DefaultDimension), route.hash,
                             Weight(route.length), DefaultDimension))]
  /\ RouteUnchanged

NextRoutes ==
  \/ RouteAnswers
  \/ \E category \in categories \cup {""} : ClientRanks(category)
  \/ EmbedText
  \/ EmbedTextAgain
  \/ PlaceWord

SpecRoutes == InitRoutes /\ [][NextRoutes]_vars

\* ------------------------------------------------------------------------
\* Properties
\* ------------------------------------------------------------------------
\* Nothing is scheduled and nothing is suspended.
Quiescent ==
  inflight = <<>> /\ debounceTimer.kind = "none" /\ ~typingTimer.armed

\* A performSearch has written the results.
Wrote == done.kind = "done"

\* The last performSearch to write called semanticSearchWithPinecone.
CalledPinecone == Wrote /\ done.tiers # <<>> /\ done.tiers[1] = "primary"

IsResponse(o, status) == o.kind = "response" /\ o.status = status

\* The remote tier that was asked last answered OK with a list of matches.
RemoteSucceeded == CalledPinecone /\ done.json.kind = "matches"

SortedByScore(list) ==
  \A i, j \in 1..Len(list) :
    i < j => ScoreOrZero(list[i]) >= ScoreOrZero(list[j])

Ids(list) == { list[i].id : i \in 1..Len(list) }

\* C1: when every started search has completed and nothing is scheduled, the
\* displayed results are those computed for the current query and category
\* (a search superseded by a newer change never has the last word).
C1_LatestResultDisplayed ==
  Quiescent =>
    /\ Wrote
    /\ done.query = searchQuery
    /\ done.category = selectedCategory
    /\ results = done.output

\* C2: the promise of semanticSearchWithPinecone is never rejected: whatever
\* the two remote calls do, it resolves to a list of documents.
C2_NeverRejects ==
  CalledPinecone =>
    /\ done.promise = "resolved"
    /\ Ids(done.output) \subseteq Ids(podcastData)

\* C2 witness: the fallback answered OK with a body that has no matches list,
\* after the primary answered 429.
C2_Witness ==
  /\ CalledPinecone
  /\ IsResponse(done.primary, 429)
  /\ IsResponse(done.fallback, 200)
  /\ done.json.kind = "noMatches"
  /\ done.promise = "resolved"

\* Every document of out comes from a match of the body: its id is the parsed
\* id of the match and its score the rounded percentage, above the threshold.
BuiltFromMatches(out, matches) ==
  \A k \in 1..Len(out) :
    \E m \in 1..Len(matches) :
      /\ parseInt(matches[m].id) = <<out[k].id>>
      /\ out[k].relevanceScore = (matches[m].score + 50) \div 100
      /\ out[k].relevanceScore > 20

\* C3: primary answered 429 and the local-embedding remote search succeeded:
\* the list is built from that remote answer (mapped, thresholded, sorted)
\* and the lexical scorer was not invoked.
C3_QuotaUsesLocalEmbedding ==
  (/\ CalledPinecone
   /\ IsResponse(done.primary, 429)
   /\ done.fallback.kind = "response" /\ ResponseOk(done.fallback)
   /\ done.json.kind = "matches")
  =>
    /\ done.tiers = <<"primary", "fallback">>
    /\ BuiltFromMatches(done.output, done.json.matches)
    /\ SortedByScore(done.output)

\* C3 witness: such a search returned documents although the lexical scorer
\* would have returned a different list.
C3_Witness ==
  /\ CalledPinecone
  /\ IsResponse(done.primary, 429)
  /\ IsResponse(done.fallback, 200)
  /\ done.json.kind = "matches"
  /\ Len(done.output) >= 2
  /\ done.output #
       localSemanticSearch(done.query, Candidates(done.category))

\* The primary failed otherwise than by quota, or the fallback failed after
\* a quota failure.
RemoteFailed ==
  /\ CalledPinecone
  /\ \/ done.primary.kind = "throw"
     \/ /\ done.primary.kind = "response"
        /\ ~ResponseOk(done.primary)
        /\ done.primary.status # 429
     \/ /\ done.primary.kind = "response" /\ ResponseOk(done.primary)
        /\ done.json.kind \in {"throw", "noMatches"}
     \/ /\ IsResponse(done.primary, 429)
        /\ \/ done.fallback.kind = "throw"
           \/ done.fallback.kind = "response" /\ ~ResponseOk(done.fallback)
           \/ /\ done.fallback.kind = "response" /\ ResponseOk(done.fallback)
              /\ done.json.kind \in {"throw", "noMatches"}

\* C4: after such a failure the list returned equals the lexical scorer's
\* list for the same query and the same category-filtered candidates.
C4_FailureFallsBackToLexical ==
  RemoteFailed =>
    done.output =
      localSemanticSearch(done.query,
        IF done.category # ""
          THEN SelectSeq(podcastData, LAMBDA p : p.category = done.category)
          ELSE podcastData)

\* C4 witness: the primary answered 500 for a search with a category, and
\* the lexical list is not empty.
C4_Witness ==
  /\ RemoteFailed
  /\ IsResponse(done.primary, 500)
  /\ done.category # ""
  /\ done.output # <<>>

TierRank(t) ==
  CASE t = "primary" -> 1 [] t = "fallback" -> 2 [] t = "lexical" -> 3

\* The tiers of a log are attempted in order, each at most once, and the
\* fallback endpoint only after the primary answered 429.
TierOrder(tiers, primary) ==
  /\ \A i, j \in 1..Len(tiers) : i < j => TierRank(tiers[i]) < TierRank(tiers[j])
  /\ (\E i \in 1..Len(tiers) : tiers[i] = "fallback") =>
       tiers[1] = "primary" /\ IsResponse(primary, 429)

\* C5: within one orchestrated search the tiers are attempted in the order
\* primary, fallback, lexical, each at most once; the fallback endpoint only
\* after a 429 of the primary; the lexical scorer only after a remote
\* failure; nothing after the first success.
C5_TiersInOrder ==
  /\ \A i \in 1..Len(inflight) :
       TierOrder(inflight[i].tiers, inflight[i].primary)
  /\ CalledPinecone =>
       /\ TierOrder(done.tiers, done.primary)
       /\ done.tiers[Len(done.tiers)] = "lexical" <=> RemoteFailed
       /\ RemoteSucceeded <=> ~RemoteFailed

\* C5 witness: a search went through all three tiers.
C5_Witness ==
  /\ Wrote
  /\ done.tiers = <<"primary", "fallback", "lexical">>

\* C6: a search run with a category selected produces only documents of that
\* category, whichever strategy produced the list.
C6_CategoryRespected ==
  (Wrote /\ done.category # "") =>
    \A k \in 1..Len(done.output) :
      done.output[k].category = done.category

\* C6 witness: a remote answer naming documents of both categories was
\* mapped for a search with a category, and documents were returned.
C6_Witness ==
  /\ RemoteSucceeded
  /\ done.category = "food"
  /\ Len(done.json.matches) > 2
  /\ done.output # <<>>

\* C7: a search run with a blank query and no category writes the whole
\* corpus in its original order, without scores, and calls no remote
\* endpoint.
C7_BlankQueryShowsCorpus ==
  (Wrote /\ trim(done.query) = <<>> /\ done.category = "") =>
    /\ done.output = podcastData
    /\ \A k \in 1..Len(done.output) : ~HasScore(done.output[k])
    /\ done.tiers = <<>>

\* C7 witness: a whitespace-only query, settled, without a category.
C7_Witness ==
  /\ Wrote
  /\ done.query = <<" ", " ">>
  /\ done.category = ""
  /\ ~done.typing
  /\ results = podcastData

\* C8: in the typing-aware component every settled query of at least two
\* characters that is not blank goes to the remote chain, and every other
\* query with some text goes directly to the lexical scorer.
C8_SettledQueryUsesRemote ==
  (Wrote /\ component = "typing" /\ trim(done.query) # <<>>) =>
    IF ~done.typing /\ Len(done.query) >= 2 /\ ~IsBlank(done.query)
      THEN done.tiers # <<>> /\ done.tiers[1] = "primary"
      ELSE done.tiers = <<"lexical">>

Position(list, id) == CHOOSE i \in 1..Len(list) : list[i].id = id

\* C9: for a non-empty query the scorer's output is sorted by score in
\* non-increasing order and documents with equal scores keep the relative
\* order of the input list.
C9_SortedAndStable ==
  (scorer.pc = "returned" /\ scorer.query # <<>>) =>
    /\ SortedByScore(scorer.output)
    /\ \A i, j \in 1..Len(scorer.output) :
         (i < j /\ ScoreOrZero(scorer.output[i]) = ScoreOrZero(scorer.output[j]))
           => Position(scorer.podcasts, scorer.output[i].id)
                < Position(scorer.podcasts, scorer.output[j].id)

\* C9 witness: three documents returned, the first two tied, the third
\* lower although it came first in the input.
C9_Witness ==
  /\ scorer.pc = "returned"
  /\ Len(scorer.output) = 3
  /\ \A k \in 1..3 : HasScore(scorer.output[k])
  /\ scorer.output[1].relevanceScore = scorer.output[2].relevanceScore
  /\ scorer.output[2].relevanceScore > scorer.output[3].relevanceScore
  /\ scorer.podcasts[1].id = scorer.output[3].id

\* The concept map a scorer uses.
MapOf(fn) ==
  IF fn = "localSemanticSearch" THEN semanticMapLocal ELSE semanticMapBasic

\* C10: for a query with at least one term (a query that is not blank) the
\* output holds exactly the input documents whose score is positive, each
\* once, with a positive score.
C10_ExactlyPositiveScores ==
  (scorer.pc = "returned" /\ trim(scorer.query) # <<>>) =>
    /\ Ids(scorer.output) =
         { p.id : p \in { scorer.podcasts[i] : i \in 1..Len(scorer.podcasts) }
                        \cap
                        { q \in { scorer.podcasts[i] :
                                    i \in 1..Len(scorer.podcasts) } :
                            LexicalScore(searchTerms(scorer.query),
                                         MapOf(scorer.fn),
                                         searchContent(q)) > 0 } }
    /\ Cardinality(Ids(scorer.output)) = Len(scorer.output)
    /\ \A k \in 1..Len(scorer.output) : scorer.output[k].relevanceScore > 0

\* C10 witness: some input documents were dropped and some were kept.
C10_Witness ==
  /\ scorer.pc = "returned"
  /\ trim(scorer.query) # <<>>
  /\ Len(scorer.podcasts) = 3
  /\ Len(scorer.output) = 1

\* The documents handed to the scorer, as a set.
Input == { scorer.podcasts[i] : i \in 1..Len(scorer.podcasts) }

\* The score the scoring rule of C11 gives: per term, 10 for a literal
\* match plus 5 for every concept whose key contains the term or one of
\* whose related terms occurs in the document's text.
RECURSIVE StatedConceptScore(_, _, _)
StatedConceptScore(term, map, content) ==
  IF map = <<>> THEN 0
  ELSE (IF \/ includes(Head(map).key, term)
           \/ \E k \in 1..Len(Head(map).values) :
                includes(content, Head(map).values[k])
          THEN 5 ELSE 0)
       + StatedConceptScore(term, Tail(map), content)

RECURSIVE StatedScore(_, _, _)
StatedScore(terms, map, content) ==
  IF terms = <<>> THEN 0
  ELSE (IF includes(content, Head(terms)) THEN 10 ELSE 0)
       + StatedConceptScore(Head(terms), map, content)
       + StatedScore(Tail(terms), map, content)

\* C11: the score the scorer gives a document is the sum over the query's
\* terms t of 10 if the document's text contains t, plus 5 for every concept
\* of the map such that t is a substring of the concept key or a related
\* term occurs in the text: documents with such a positive score are
\* returned with exactly that score, the others are not returned.
C11_ScoreIsStatedSum ==
  (/\ scorer.pc = "returned"
   /\ scorer.fn = "localSemanticSearch" \/ trim(scorer.query) # <<>>)
  =>
    \A p \in Input :
      LET s == StatedScore(searchTerms(scorer.query), MapOf(scorer.fn),
                           searchContent(p))
      IN IF s > 0
           THEN \E k \in 1..Len(scorer.output) :
                  /\ scorer.output[k].id = p.id
                  /\ scorer.output[k].relevanceScore = s
           ELSE p.id \notin Ids(scorer.output)

\* C12: appending one more whitespace-separated term to a query never lowers
\* a document's score: every document localSemanticSearch returned for the
\* query is returned for the extended query, with a score at least as high.
C12_MonotonicInQuery ==
  (/\ scorer.pc = "returned"
   /\ scorer.fn = "localSemanticSearch"
   /\ scorer.base # NoBase)
  =>
    \A k \in 1..Len(scorer.base.output) :
      \E j \in 1..Len(scorer.output) :
        /\ scorer.output[j].id = scorer.base.output[k].id
        /\ scorer.output[j].relevanceScore
             >= scorer.base.output[k].relevanceScore

\* The literal-match part of a document's score.
RECURSIVE LiteralScore(_, _)
LiteralScore(terms, content) ==
  IF terms = <<>> THEN 0
  ELSE (IF includes(content, Head(terms)) THEN 10 ELSE 0)
       + LiteralScore(Tail(terms), content)

\* Document p holds a related term of the concept but not the query text.
RelatedOnly(p, entry, query) ==
  /\ \E v \in 1..Len(entry.values) :
       includes(searchContent(p), entry.values[v])
  /\ ~includes(searchContent(p), toLowerCase(query))

\* C13: when the query is a concept key of the scorer's map, every input
\* document that holds one of the concept's related terms but not the query
\* text is returned with a score of at least 5, although its literal-match
\* score is 0.
C13_ConceptCredit ==
  scorer.pc = "returned" =>
    \A e \in 1..Len(MapOf(scorer.fn)) :
      scorer.query = MapOf(scorer.fn)[e].key =>
        \A p \in Input :
          RelatedOnly(p, MapOf(scorer.fn)[e], scorer.query) =>
            /\ \E k \in 1..Len(scorer.output) :
                 /\ scorer.output[k].id = p.id
                 /\ scorer.output[k].relevanceScore >= 5
            /\ LiteralScore(searchTerms(scorer.query), searchContent(p)) = 0

\* C13 witness: the query is the food concept and the list holds the
\* document tagged with the Sichuan-cuisine term only, which is returned
\* below a document that holds the query text.
C13_Witness ==
  /\ scorer.pc = "returned"
  /\ scorer.query = MeiShi
  /\ \E p \in Input : p.id = 3 /\ RelatedOnly(p, MapOf(scorer.fn)[1], MeiShi)
  /\ Len(scorer.output) >= 2
  /\ scorer.output[Len(scorer.output)].id = 3
  /\ scorer.output[1].id # 3

\* C14: every match of a vector-based ranking is strictly above the minimum
\* and the list is sorted by score, highest first: the documents the browser
\* keeps from a search route's answer have a whole relevanceScore above 20,
\* and the matches the semantic-search route returns have a similarity
\* above 0.3.
C14_AboveThresholdAndSorted ==
  /\ route.pc = "ranked" =>
       /\ \A k \in 1..Len(route.output) :
            /\ route.output[k].relevanceScore \in Nat
            /\ route.output[k].relevanceScore > 20
       /\ \A i, j \in 1..Len(route.output) :
            i < j => route.output[i].relevanceScore
                       >= route.output[j].relevanceScore
  /\ (route.pc = "answered" /\ route.fn = "semanticSearch"
        /\ route.response.status = 200) =>
       /\ \A k \in 1..Len(route.response.matches) :
            route.response.matches[k].score > 3000
       /\ \A i, j \in 1..Len(route.response.matches) :
            i < j => route.response.matches[i].score
                       >= route.response.matches[j].score

\* C14 witness: an answer held a match of a candidate that rounds to
\* exactly 20 and was dropped, and several documents were kept.
C14_Witness ==
  /\ route.pc = "ranked"
  /\ Len(route.output) >= 2
  /\ \E m \in 1..Len(route.response.matches) :
       /\ (route.response.matches[m].score + 50) \div 100 = 20
       /\ \E c \in 1..Len(RouteCandidates(route.category)) :
            <<RouteCandidates(route.category)[c].id>>
              = parseInt(route.response.matches[m].id)

\* C15: every document semanticSearchWithPinecone returns is a document of
\* the candidate list it was given, and when the list comes from a remote
\* answer every returned id is the parsed id of one of its matches.
C15_OnlyCandidates ==
  CalledPinecone =>
    /\ \A k \in 1..Len(done.output) :
         \E c \in 1..Len(Candidates(done.category)) :
           done.output[k] =
             WithScore(Candidates(done.category)[c],
                       done.output[k].relevanceScore)
    /\ RemoteSucceeded =>
         \A k \in 1..Len(done.output) :
           \E m \in 1..Len(done.json.matches) :
             parseInt(done.json.matches[m].id) = <<done.output[k].id>>

\* C15 witness: with a category selected, the answer named a document of
\* another category, an id of no document and an id that is not a number,
\* and some documents were returned.
C15_Witness ==
  /\ RemoteSucceeded
  /\ done.category # ""
  /\ done.output # <<>>
  /\ \E m \in 1..Len(done.json.matches) :
       parseInt(done.json.matches[m].id) = <<9>>
  /\ \E m \in 1..Len(done.json.matches) :
       \E p \in 1..Len(podcastData) :
         /\ parseInt(done.json.matches[m].id) = <<podcastData[p].id>>
         /\ podcastData[p].category # done.category

C17_LocalThresholdLower ==
  (/\ route.fn = "searchFallback" /\ route.pc = "ranked"
   /\ route.request.index.kind = "ok") =>
    \A m \in 1..Len(route.request.index.matches) :
      LET raw == route.request.index.matches[m]
          viaPrimary ==
            RankMatches(<< [id |-> raw.id, score |-> RawScore(raw)] >>,
                        RouteCandidates(route.category))
      IN viaPrimary # <<>> => viaPrimary[1].id \in Ids(route.output)

\* The browser would drop every match of the list: it names no candidate,
\* or its percentage is not above 20.
AllDiscarded(matches, candidates) ==
  \A m \in 1..Len(matches) :
    \/ ~\E c \in 1..Len(candidates) :
          <<candidates[c].id>> = parseInt(matches[m].id)
    \/ (matches[m].score + 50) \div 100 <= 20

\* C18: when the remote tier asked last answered OK with a list of matches
\* that is empty or of which none is kept, semanticSearchWithPinecone
\* returns the empty list and neither the next remote tier nor the lexical
\* scorer is invoked.
C18_EmptyIsNotFailure ==
  (/\ RemoteSucceeded
   /\ AllDiscarded(done.json.matches, Candidates(done.category)))
  =>
    /\ done.output = <<>>
    /\ \A t \in 1..Len(done.tiers) : done.tiers[t] # "lexical"
    /\ IsResponse(done.primary, 200) => done.tiers = <<"primary">>

\* C18 witness: the primary answered OK with matches none of which is kept,
\* for a query the lexical scorer has results for.
C18_Witness ==
  /\ RemoteSucceeded
  /\ IsResponse(done.primary, 200)
  /\ done.json.matches # <<>>
  /\ done.output = <<>>
  /\ localSemanticSearch(done.query, Candidates(done.category)) # <<>>

\* C19: the primary route answers 429 only for a quota or rate-limit
\* failure of the embedding service; every other failure gets another
\* status.
C19_Only429ForEmbeddingQuota ==
  (/\ route.fn = "searchPinecone"
   /\ route.pc \in {"answered", "ranked"}
   /\ route.response.status = 429)
  => route.response.cause = "embeddingQuota"

\* C20: whenever a request is sent to the primary or to the fallback
\* endpoint, the typing flag is false and the query of the request is the
\* current text of the input field.
C20_NoRequestWhileTyping ==
  [][ \A i \in 1..Len(inflight) :
        (/\ Len(inflight') = Len(inflight)
         /\ inflight'[i].pc \in {"primary", "fallback"}
         /\ inflight'[i].pc # inflight[i].pc)
        => (~isTyping /\ inflight[i].query = searchQuery) ]_vars

\* C21: at every moment at most one scheduled search is pending, and it was
\* created for the current query, category, typing flag and API-eligibility
\* flag; every change of one of the four leaves a newly scheduled search
\* in place of the one that was pending.
C21_OnePendingForCurrentState ==
  /\ [](debounceTimer.kind = "armed" =>
          /\ debounceTimer.query = searchQuery
          /\ debounceTimer.category = selectedCategory
          /\ debounceTimer.typing = isTyping
          /\ debounceTimer.api = shouldUseAPI)
  /\ [][ (\/ searchQuery' # searchQuery
          \/ selectedCategory' # selectedCategory
          \/ isTyping' # isTyping
          \/ shouldUseAPI' # shouldUseAPI)
         => (/\ debounceTimer'.kind = "armed"
             /\ debounceTimer'.query = searchQuery'
             /\ debounceTimer'.category = selectedCategory'
             /\ debounceTimer'.typing = isTyping'
             /\ debounceTimer'.api = shouldUseAPI') ]_vars

\* C21 witness: two user events changed the query and the category and no
\* scheduled search has fired, so two pending searches were cancelled and
\* the one pending was scheduled for the second change.
C21_Witness ==
  /\ userEvents = 2
  /\ done = NoSearch
  /\ inflight = <<>>
  /\ debounceTimer.kind = "armed"
  /\ debounceTimer.query # <<>>
  /\ debounceTimer.category # ""

\* C22: every edit through the input field sets the typing flag; every
\* change of the query while typing restarts the typing timeout; and the
\* typing flag becomes false only when a timeout fires that was set at the
\* latest change of the query.
C22_TypingQuietPeriod ==
  [][ /\ (\E v \in InputValues : handleSearchInput(v)) => isTyping'
      /\ (searchQuery' # searchQuery /\ isTyping')
           => (typingTimer'.armed /\ typingTimer'.query = searchQuery')
      /\ (isTyping /\ ~isTyping')
           => (typingTimer.armed /\ typingTimer.query = searchQuery) ]_vars

\* C22 witness: while typing, a click replaced the query (the eligibility
\* flag still belongs to the typed text) and the typing timeout pending is
\* the one set for the clicked text.
C22_Witness ==
  /\ isTyping
  /\ userEvents = 2
  /\ typingTimer.armed
  /\ typingTimer.query = searchQuery
  /\ debounceTimer.kind = "armed"
  /\ debounceTimer.withTyping
  /\ shouldUseAPI # shouldCallAPI(searchQuery)

\* C23: with a category selected, the list built from a remote answer is
\* the thresholded ranking of the documents of that category: no document
\* of the category that the index scores above the threshold is missing
\* because documents of other categories took the topK places of the
\* answer.
C23_CategoryRankingComplete ==
  (/\ route.fn \in {"searchPinecone", "searchFallback"}
   /\ route.pc = "ranked"
   /\ route.category # ""
   /\ route.request.index.kind = "ok") =>
    LET whole == [kind |-> "ok", matches |-> route.request.index.ranking]
        served == IF route.fn = "searchPinecone"
                    THEN FormatMatches(whole) ELSE FormatMatchesLocal(whole)
    IN route.output = RankMatches(served, RouteCandidates(route.category))

C25_DelayByMode ==
  (component = "typing" /\ debounceTimer.kind = "armed") =>
    /\ debounceTimer.typing => debounceTimer.delay = 150
    /\ (/\ ~debounceTimer.typing
        /\ debounceTimer.api
        /\ Len(debounceTimer.query) >= 2
        /\ trim(debounceTimer.query) # <<>>)
         => debounceTimer.delay = 1000

\* C26: while a settled search has started and has not yet written its
\* results, the progress indicator is on.
C26_IndicatorCoversPending ==
  inflight # <<>> => isSearching

\* C27: the eligibility flag equals the eligibility predicate applied to
\* the current text of the query, whichever control changed the text.
C27_EligibilityNeverStale ==
  component = "typing" => shouldUseAPI = shouldCallAPI(searchQuery)

\* C28: once the user has stopped and every timeout has fired and every
\* remote call has returned or failed, so that nothing is left to happen,
\* the typing flag is false, the progress indicator is off, the status text
\* is empty, and the results shown are those written by a settled search
\* for the current query and category.
C28_SettlesOnCurrentQuery ==
  Quiescent =>
    /\ ~isTyping
    /\ ~isSearching
    /\ searchStatus = StatusIdle
    /\ Wrote
    /\ ~done.typing
    /\ done.query = searchQuery
    /\ done.category = selectedCategory
    /\ results = done.output

\* 31 * h + c wrapped to a signed 32-bit integer, computed on 16-bit halves.
Times31Plus(h, c) ==
  LET lo == 31 * LowHalf(h) + c
      hi == 31 * HighHalf(h) + (lo \div 65536)
  IN ToInt32(hi % 65536, lo % 65536)

\* C29: the hash of a word starts at 0 and after every character is
\* 31 * h + charCode wrapped to a signed 32-bit integer, so that it always
\* lies between -2^31 and 2^31 - 1.
C29_HashIsTimes31Wrapped ==
  (route.fn = "createLocalEmbedding" /\ route.pc \in {"once", "twice"}) =>
    \A k \in 1..Len(route.hashes) :
      LET word == words(route.text)[k]
          hash == route.hashes[k]
      IN /\ Len(hash) = Len(word)
         /\ \A n \in 1..Len(word) :
              /\ hash[n] = Times31Plus(IF n = 1 THEN 0 ELSE hash[n - 1],
                                       charCodeAt(word[n]))
              /\ hash[n] >= -2147483647 - 1
              /\ hash[n] <= 2147483647

\* C29 witness: a word whose hash left the 32-bit range and came back
\* negative.
C29_Witness ==
  /\ route.fn = "createLocalEmbedding"
  /\ route.pc = "once"
  /\ \E k \in 1..Len(route.hashes) :
       \E n \in 2..Len(route.hashes[k]) :
         route.hashes[k][n] < 0 /\ route.hashes[k][n - 1] > 0

\* C30: for every 32-bit hash, -2^31 included, the three positions are
\* integers from 0 to dimension - 1, the writes stay inside the vector and
\* its length does not change.
C30_PositionsInsideVector ==
  (route.fn = "wordPositions" /\ route.pc = "placed") =>
    /\ \A p \in 1..3 :
         /\ route.positions[p] >= 0
         /\ route.positions[p] <= DefaultDimension - 1
    /\ route.arrayLength = DefaultDimension

\* C30 witness: the positions of the hash -2^31 have been computed.
C30_Witness ==
  /\ route.fn = "wordPositions"
  /\ route.pc = "placed"
  /\ route.hash = -2147483647 - 1
  /\ route.positions = <<512, 512, 512>>

====
